---- MODULE Spec2Model ----
(***************************************************************************)
(* Model of the x402 payment-required retry protocol of the repository:    *)
(* the merchant purchase route (apps/merchant/src/routes/products.ts, both *)
(* variants of the purchase router), the settlement wrapper                *)
(* ThirdwebX402Service, the itemized client ApiClient.executePurchase, the *)
(* proof preparer AgentWalletService.prepareX402Payment, and the purchase  *)
(* entry points (process_payment tool, processX402Payment,                 *)
(* AgentManager.makePurchase).                                             *)
(*                                                                         *)
(* External collaborators (thirdweb settlePayment, the thirdweb prepare    *)
(* endpoint, the network) are environment: every outcome their interface   *)
(* allows is a nondeterministic choice.                                     *)
(***************************************************************************)
EXTENDS Integers, Sequences, FiniteSets, TLC

\* ------------------------------------------------------------------ bounds
\* number of purchase requests arbitrary HTTP clients send in one behaviour
MaxReqs == 2
\* number of distinct proof nonces the signing collaborator hands out
MaxNonce == 1
\* number of purchase entry-point invocations in one behaviour
MaxRuns == 1
\* number of chat requests the agents API receives in one behaviour
MaxChats == 2
\* number of tool calls the agent executor makes for one chat request
MaxToolCalls == 1

\* ------------------------------------------------------------- value sets
None == "none"

ProductIds == {"p1", "p2"}

Nonces == 1..MaxNonce

\* x-payment header values: absent, undecodable, or an encoded proof whose
\* authorization carries a nonce and a validBefore that is past or not.
NoHeader == [kind |-> "absent", nonce |-> 0, expired |-> FALSE]
Malformed == [kind |-> "malformed", nonce |-> 0, expired |-> FALSE]
Proofs == [kind : {"proof"}, nonce : Nonces, expired : BOOLEAN]
Headers == {NoHeader, Malformed} \cup Proofs

\* PaymentRequirements offered in a 402 body; the body's accepts list is
\* missing, empty, or an ordered list of requirements.
Requirements == {"r1", "r2"}
Undefined == "undefined"
\* the accepts member of a 402 body: missing, or a list
NoAccepts == [missing |-> TRUE, list |-> <<>>]
Accepts(l) == [missing |-> FALSE, list |-> l]
AcceptsValues == {NoAccepts, Accepts(<<>>), Accepts(<<"r1">>), Accepts(<<"r2", "r1">>)}

\* payment references are tagged values <<tag, n>>
NoRef == <<"none", 0>>
UndefinedRef == <<"undefined", 0>>
\* transaction id in the payment receipt of the settlement of nonce n
TxOf(n) == <<"tx", n>>
\* the transaction hash the thirdweb transactions API resolves an id to
HashOf(tx) == <<"hash", tx[2]>>
\* two of the values `0x${Date.now()...}${Math.random()...}` can take
FallbackHashes == {<<"fallback", 1>>, <<"fallback", 2>>}

\* ------------------------------------------------------------------ state
VARIABLES
    variant,        \* which purchase router is deployed: "txHash" | "txId"
    baseUrl,        \* API_BASE_URL of the agent: "merchant" | "other"
    productCache,   \* products.ts productCache (keys of the Map)
    reqs,           \* purchase requests received by the merchant, in order
    ledger,         \* settlement collaborator: nonce -> receipt of its settlement
    agentInstance,  \* agent/tools.ts: the module-level agentInstance
    lastSearchResults, \* ShoppingAgent.lastSearchResults of that instance
    agentWallet,    \* ApiClient.agentWallet of that instance's apiClient
    globalWallet,   \* globalWallet.ts clientWalletService's wallet
    secretKey,      \* whether THIRDWEB_SECRET_KEY is set for the agent process
    agents,         \* AgentManager.agents (its keys)
    run,            \* the purchase entry-point invocation in progress
    runs,           \* number of entry-point invocations so far
    shoppingAgents, \* the ShoppingAgent objects the agents API constructed
    agentSessions,  \* server.ts agentSessions: agent name -> ShoppingAgent
    chats,          \* POST /api/agents/:name/chat requests, in order of arrival
    purchaseLog,    \* calls of apiClient.executePurchase made by the payment tool
    consoleCapture, \* the wrappers setupConsoleCapture put around console.log
    statusLog,      \* StatusStreamer.broadcast calls made for chat requests
    subscribers,    \* StatusStreamer.subscribers: agent name -> Set of callbacks
    agentConnections, \* agents API: agent name -> Set of WebSocket connections
    sockets,        \* the WebSocket connections of the agents API
    handles,        \* the unsubscribe functions StatusStreamer.subscribe returned
    subscribed,     \* the (agent, callback) pairs subscribed and not unsubscribed since
    lastCall,       \* the last call made on the StatusStreamer
    delivered,      \* what the last call invoked, if it was a broadcast
    ws,             \* frontend WebSocketService.ws: a socket of feSockets, 0 for null
    feSockets,      \* the WebSockets the frontend created, in order
    reconnectAttempts, \* WebSocketService.reconnectAttempts
    timers,         \* the frontend's pending setTimeout callbacks
    feSubscribers,  \* WebSocketService.subscribers: agent name -> Set of callbacks
    notified,       \* the callbacks the last status message reached
    disconnected,   \* disconnect() was called and connect() not since
    fused,          \* a purchase through the single fetch-with-payment call
    prep            \* a call of the proof preparer

merchantVars == <<variant, baseUrl, productCache, reqs, ledger>>
sessionVars == <<shoppingAgents, agentSessions, chats, purchaseLog,
                 consoleCapture, statusLog>>
streamVars == <<subscribers, agentConnections, sockets, handles, subscribed,
                lastCall, delivered>>
frontVars == <<ws, feSockets, reconnectAttempts, timers, feSubscribers, notified,
               disconnected>>
extraVars == <<streamVars, frontVars, fused, prep>>
configVars == <<agentInstance, lastSearchResults, agentWallet, globalWallet,
                secretKey, agents, sessionVars, extraVars>>
clientVars == <<agentInstance, lastSearchResults, agentWallet, globalWallet,
                secretKey, agents, run, runs, sessionVars, extraVars>>
coreVars == <<variant, baseUrl, productCache, reqs, ledger, agentInstance,
              lastSearchResults, agentWallet, globalWallet, secretKey, agents,
              run, runs, sessionVars>>
vars == <<variant, baseUrl, productCache, reqs, ledger, agentInstance, lastSearchResults,
          agentWallet, globalWallet, secretKey, agents, run, runs, sessionVars, extraVars>>
besidesStream == <<coreVars, frontVars, fused, prep>>
besidesFront == <<coreVars, streamVars, fused, prep>>
besidesFused == <<coreVars, streamVars, frontVars, prep>>
besidesPrep == <<coreVars, streamVars, frontVars, fused>>

\* ------------------------------------------------- response bodies (JSON)
NoBody == [kind |-> "none", success |-> FALSE, productId |-> None,
           ref |-> NoRef, accepts |-> NoAccepts, error |-> None]
\* { success: true, productId, transactionId | transactionHash, purchaseDetails }
PurchaseBody(pid, ref) == [NoBody EXCEPT !.kind = "purchase", !.success = TRUE,
                                         !.productId = pid, !.ref = ref]
\* { success: false, productId, error }
ErrorBody(pid, msg) == [NoBody EXCEPT !.kind = "error", !.productId = pid,
                                      !.error = msg]
\* the collaborator's 402 body { x402Version, error, accepts }
EnvelopeBody(acc) == [NoBody EXCEPT !.kind = "envelope", !.accepts = acc]
\* the collaborator's body for any other status
RejectBody(msg) == [NoBody EXCEPT !.kind = "reject", !.error = msg]
\* the collaborator's 402 body for a proof whose payer cannot cover the
\* amount: error names the shortfall, accepts offers the payment again
ShortfallBody == [EnvelopeBody(Accepts(<<"r1">>)) EXCEPT !.error = "insufficient funds"]
\* a response body that is no JSON text: response.json() raises
TextBody == [NoBody EXCEPT !.kind = "text"]

\* ------------------------------------- settlement collaborator (thirdweb)
Unsettled == <<"unsettled", 0>>
NoTx == <<"notx", 0>>

Result(status, tx, body) ==
    [threw |-> FALSE, status |-> status, tx |-> tx, body |-> body, msg |-> None]
Thrown(msg) ==
    [threw |-> TRUE, status |-> 0, tx |-> NoTx, body |-> NoBody, msg |-> msg]

\* messages of the errors the collaborator may raise
CollaboratorErrors == {"insufficient funds", "invalid signature", "other"}

\* what settlePayment of thirdweb/x402 may answer for a header, given the
\* nonces it has already settled.  It settles a nonce at most once: a replay
\* is rejected or answered with the receipt of the first settlement.
SettleOutcomes(h, led) ==
    {Thrown(m) : m \in CollaboratorErrors} \cup
    CASE h.kind = "absent" ->
            {Result(402, NoTx, EnvelopeBody(a)) : a \in AcceptsValues}
      [] h.kind = "malformed" ->
            {Result(402, NoTx, EnvelopeBody(Accepts(<<"r1">>))),
             Result(400, NoTx, RejectBody("invalid payment"))}
      [] h.expired ->
            {Result(402, NoTx, EnvelopeBody(Accepts(<<"r1">>))),
             Result(400, NoTx, RejectBody("expired"))}
      [] led[h.nonce] = Unsettled ->
            {Result(200, tx, NoBody) : tx \in {NoTx, TxOf(h.nonce)}} \cup
            {Result(402, NoTx, EnvelopeBody(Accepts(<<"r1">>))),
             Result(402, NoTx, ShortfallBody),
             Result(400, NoTx, RejectBody("invalid signature"))}
      [] OTHER ->
            {Result(200, led[h.nonce], NoBody),
             Result(400, NoTx, RejectBody("replay"))}

\* the collaborator's ledger after it answered v for header h
LedgerAfter(h, v, led) ==
    IF h.kind = "proof" /\ ~v.threw /\ v.status = 200 /\ led[h.nonce] = Unsettled
    THEN [led EXCEPT ![h.nonce] = v.tx]
    ELSE led

\* ThirdwebX402Service.settlePayment, catch block: the error is re-thrown
\* with a message chosen by substring of the original message.
SettleErrorMessage(msg) ==
    IF msg = "insufficient funds" THEN "Insufficient funds for payment"
    ELSE IF msg = "invalid signature" THEN "Invalid payment signature"
    ELSE IF msg = "network" THEN "Network error during payment processing"
    ELSE "Payment settlement failed: " \o msg

\* ------------------------------------------------ merchant purchase route
Request(from, pid, h, gated) ==
    [from |-> from, pid |-> pid, header |-> h, gated |-> gated,
     stage |-> "received", calls |-> <<>>, verdict |-> Thrown(None),
     status |-> 0, body |-> NoBody]

Respond(r, status, body) ==
    [r EXCEPT !.stage = "done", !.status = status, !.body = body]

Answered(r) == r.stage = "done"

\* the route handing a header of its own making to the settlement service
RouteStartReplacingHeader(r, cache) ==
    IF r.pid \notin cache
    THEN Respond(r, 404, ErrorBody(r.pid, "Product not found"))
    ELSE [r EXCEPT !.stage = "settling", !.calls = Append(@, NoHeader)]

\* the route settling the payment without looking the product up
RouteStartSettlingUnknown(r, cache) ==
    [r EXCEPT !.stage = "settling", !.calls = Append(@, r.header)]

\* router.post('/:productId'), from the start of the handler to the await of
\* settlePayment: 404 for a product that is not cached, else the header is
\* handed to the settlement service.
RouteStart(r, cache) ==
    IF r.pid \notin cache
    THEN Respond(r, 404, ErrorBody(r.pid, "Product not found"))
    ELSE [r EXCEPT !.stage = "settling", !.calls = Append(@, r.header)]

\* the route with the 402 verdict released like a settled one
RouteSettledReleasingOn402(r, v, var, fb) ==
    LET r1 == [r EXCEPT !.verdict = v] IN
    IF v.threw
    THEN Respond(r1, 500, ErrorBody(r.pid, SettleErrorMessage(v.msg)))
    ELSE IF v.status = 200 \/ v.status = 402
    THEN Respond(r1, 200, PurchaseBody(r.pid, IF v.tx = NoTx THEN UndefinedRef ELSE v.tx))
    ELSE Respond(r1, v.status, v.body)

\* router.post('/:productId'), after settlePayment returned v or threw
\* (the service re-throws with its own message).  fb is the value the
\* fallback expression of the txHash variant evaluates to.
RouteSettled(r, v, var, fb) ==
    LET r1 == [r EXCEPT !.verdict = v] IN
    IF v.threw
    THEN Respond(r1, 500, ErrorBody(r.pid, SettleErrorMessage(v.msg)))
    ELSE IF v.status = 200
    THEN IF var = "txId"
         THEN Respond(r1, 200,
                      PurchaseBody(r.pid, IF v.tx = NoTx THEN UndefinedRef ELSE v.tx))
         ELSE IF v.tx # NoTx
              THEN [r1 EXCEPT !.stage = "lookup"]
              ELSE Respond(r1, 200, PurchaseBody(r.pid, fb))
    ELSE IF v.status = 402
    THEN Respond(r1, 402, v.body)
    ELSE Respond(r1, v.status, v.body)

\* txHash variant, after the GET /transactions/:id of the thirdweb API
\* returned: the hash when the lookup gave one, else the fallback.
RouteLookedUp(r, found, fb) ==
    Respond(r, 200, PurchaseBody(r.pid, IF found THEN HashOf(r.verdict.tx) ELSE fb))

\* ------------------------------------------------------- merchant actions
\* GET /api/products and GET /api/products/:productId put products in the
\* cache.
CatalogGet(pid) ==
    /\ pid \notin productCache
    /\ productCache' = productCache \cup {pid}
    /\ UNCHANGED <<variant, baseUrl, reqs, ledger>>
    /\ UNCHANGED clientVars

\* a request to POST ${API_BASE_URL}/purchase/:productId arrives: at the
\* merchant its handler runs up to the await of settlePayment; any other
\* resource server answers as it likes
Arrive(from, pid, h, gated) ==
    /\ reqs' = Append(reqs, IF baseUrl = "merchant"
                            THEN RouteStart(Request(from, pid, h, gated), productCache)
                            ELSE [Request(from, pid, h, gated) EXCEPT !.stage = "other"])
    /\ UNCHANGED <<variant, baseUrl, productCache, ledger>>

\* any HTTP client posts to the purchase route
PostRaw(pid, h) ==
    /\ Len(reqs) < MaxReqs
    /\ Arrive("raw", pid, h, FALSE)
    /\ UNCHANGED clientVars

\* the settlement collaborator answers request i and the handler goes on
SettleReturns(i) ==
    /\ reqs[i].stage = "settling"
    /\ \E v \in SettleOutcomes(reqs[i].header, ledger), fb \in FallbackHashes :
          /\ reqs' = [reqs EXCEPT ![i] = RouteSettled(@, v, variant, fb)]
          /\ ledger' = LedgerAfter(reqs[i].header, v, ledger)
    /\ UNCHANGED <<variant, baseUrl, productCache>>
    /\ UNCHANGED clientVars

\* the transaction lookup of the txHash variant answers request i
LookupReturns(i) ==
    /\ reqs[i].stage = "lookup"
    /\ \E found \in BOOLEAN, fb \in FallbackHashes :
          reqs' = [reqs EXCEPT ![i] = RouteLookedUp(@, found, fb)]
    /\ UNCHANGED <<variant, baseUrl, productCache, ledger>>
    /\ UNCHANGED clientVars

\* ---------------------------------------------------------- client state
AgentNames == {"a1"}
Confirmations == {"true", "false", "absent"}

\* PurchaseResponse values executePurchase returns
NoResult == [kind |-> "none", status |-> 0, body |-> NoBody, error |-> None,
             cause |-> None, fundingRequired |-> FALSE, productId |-> None]
\* return data: the parsed 2xx body (no body of the purchase route has a
\* fundingRequired member)
Data(status, body) == [NoResult EXCEPT !.kind = "data", !.status = status, !.body = body]
\* { success: false, productId, error }; error is `HTTP ${status}: ${text}`
\* ("http", with the status and the text), `Failed to prepare x402 payment:
\* ${message}` ("prepare", with the message as cause) or `Failed to execute
\* purchase: ${message}` ("execute", with the message as cause); the object
\* has no fundingRequired member
Failure(pid, error, cause, status, body) ==
    [NoResult EXCEPT !.kind = "failure", !.status = status, !.body = body,
                     !.error = error, !.cause = cause, !.productId = pid]
\* the success member of the returned value
ResultSuccess(res) == res.kind = "data" /\ res.body.success

\* what one invocation did, in order: fetches of the purchase URL, calls of
\* prepareX402Payment, calls of the thirdweb prepare endpoint
Ev(type, pid, h, req) == [type |-> type, pid |-> pid, header |-> h, req |-> req]
Fetch(pid, h) == Ev("fetch", pid, h, Undefined)

\* the message of the exception fetch raises at a network-level failure
FetchFailed == "fetch failed"
\* fetch(url, { headers }) raised
FetchThrew(pid, h) == Ev("fetchThrew", pid, h, FetchFailed)
\* prepareX402Payment raised an error with message msg
PrepareThrew(pid, msg) == Ev("prepareThrew", pid, NoHeader, msg)

Idle == [entry |-> None, confirmed |-> "absent", gate |-> FALSE, pc |-> "idle",
         pid |-> None, known |-> FALSE, req |-> Undefined, events |-> <<>>,
         received |-> <<>>, out |-> None, result |-> NoResult]

\* ------------------------------------------- ApiClient.executePurchase
Ok(status) == status \in 200..299

\* the last offered requirements instead of the first
SelectLastRequirements(body) ==
    IF ~body.accepts.missing /\ Len(body.accepts.list) > 0
    THEN body.accepts.list[Len(body.accepts.list)]
    ELSE Undefined

\* paymentRequirements after `if (x402Response.accepts && .length > 0)`
SelectRequirements(body) ==
    IF ~body.accepts.missing /\ Len(body.accepts.list) > 0
    THEN body.accepts.list[1]
    ELSE Undefined

\* executePurchase preparing a payment for every first response
ExecFirstResponseAlwaysPreparing(r, status, body) ==
    [r EXCEPT !.pc = "preparing", !.req = SelectRequirements(body),
              !.events = Append(@, Ev("prepare", r.pid, NoHeader,
                                      SelectRequirements(body)))]

\* the rejection of the promise executePurchase returned
Escaped(r) == [r EXCEPT !.pc = "returned", !.result = [NoResult EXCEPT !.kind = "thrown"]]

\* executePurchase letting the exception of response.json() escape
ExecFirstResponseRethrowing(r, status, body) ==
    IF (status = 402 \/ Ok(status)) /\ body.kind = "text"
    THEN Escaped(r)
    ELSE IF status = 402
    THEN [r EXCEPT !.pc = "preparing", !.req = SelectRequirements(body),
                   !.events = Append(@, Ev("prepare", r.pid, NoHeader,
                                           SelectRequirements(body)))]
    ELSE IF ~Ok(status)
    THEN [r EXCEPT !.pc = "returned", !.result = Failure(r.pid, "http", None, status, body)]
    ELSE [r EXCEPT !.pc = "returned", !.result = Data(status, body)]

\* executePurchase when the first response arrived: a 402 starts the x402
\* flow with a call of prepareX402Payment, any other non-ok status is a
\* failure, an ok status returns the body. response.json() of a 402 or ok
\* body that is no JSON raises, and the outer catch returns the failure.
ExecFirstResponse(r, status, body) ==
    IF (status = 402 \/ Ok(status)) /\ body.kind = "text"
    THEN [r EXCEPT !.pc = "returned",
                   !.result = Failure(r.pid, "execute", "invalid json", status, body)]
    ELSE IF status = 402
    THEN [r EXCEPT !.pc = "preparing", !.req = SelectRequirements(body),
                   !.events = Append(@, Ev("prepare", r.pid, NoHeader,
                                           SelectRequirements(body)))]
    ELSE IF ~Ok(status)
    THEN [r EXCEPT !.pc = "returned", !.result = Failure(r.pid, "http", None, status, body)]
    ELSE [r EXCEPT !.pc = "returned", !.result = Data(status, body)]

\* executePurchase answering a second 402 with another x402 round
ExecRetryResponseLooping(r, status, body) ==
    IF status = 402
    THEN [r EXCEPT !.pc = "preparing", !.req = SelectRequirements(body),
                   !.events = Append(@, Ev("prepare", r.pid, NoHeader,
                                           SelectRequirements(body)))]
    ELSE IF ~Ok(status)
    THEN [r EXCEPT !.pc = "returned", !.result = Failure(r.pid, "http", None, status, body)]
    ELSE [r EXCEPT !.pc = "returned", !.result = Data(status, body)]

\* executePurchase reporting a rejected retry without what the server sent
ExecRetryResponseDroppingBody(r, status, body) ==
    IF ~Ok(status)
    THEN [r EXCEPT !.pc = "returned", !.result = Failure(r.pid, "http", None, 0, NoBody)]
    ELSE [r EXCEPT !.pc = "returned", !.result = Data(status, body)]

\* executePurchase when the response of the retry arrived
ExecRetryResponse(r, status, body) ==
    IF ~Ok(status)
    THEN [r EXCEPT !.pc = "returned", !.result = Failure(r.pid, "http", None, status, body)]
    ELSE IF body.kind = "text"
    THEN [r EXCEPT !.pc = "returned",
                   !.result = Failure(r.pid, "execute", "invalid json", status, body)]
    ELSE [r EXCEPT !.pc = "returned", !.result = Data(status, body)]

\* ------------------------------------------------------- proof preparer
\* ApiClient.prepareX402Payment: the agent's wallet, else the global one
EffectiveWallet(aw, gw) == IF aw # None THEN aw ELSE gw

Prepared(h) == [ok |-> TRUE, header |-> h, signed |-> TRUE, msg |-> None]
PrepareFailed(signed, msg) ==
    [ok |-> FALSE, header |-> NoHeader, signed |-> signed, msg |-> msg]

\* AgentWalletService.prepareX402Payment: throws without a wallet or a
\* secret key; else posts to the thirdweb prepare endpoint, which signs a
\* proof for the requirements or fails (it has nothing to sign when the
\* requirements are undefined); the proof may have expired when it is used.
\* The fetch of the prepare endpoint raises like any fetch.
PrepareOutcomes(req, wallet, key) ==
    IF wallet = None THEN {PrepareFailed(FALSE, "wallet not initialized")}
    ELSE IF ~key THEN {PrepareFailed(FALSE, "secret key required")}
    ELSE {PrepareFailed(TRUE, "prepare endpoint failed"), PrepareFailed(TRUE, FetchFailed)}
         \cup (IF req = Undefined THEN {} ELSE {Prepared(h) : h \in Proofs})

\* executePurchase reporting a failure of the preparer as its own
ExecPrepareThrewAsExecute(r, msg) ==
    [r EXCEPT !.pc = "returned", !.events = Append(@, PrepareThrew(r.pid, msg)),
              !.result = Failure(r.pid, "execute", None, 0, NoBody)]

\* executePurchase, inner catch after prepareX402Payment raised: the
\* failure carries the message of the error, no retry is sent
ExecPrepareThrew(r, msg) ==
    [r EXCEPT !.pc = "returned", !.events = Append(@, PrepareThrew(r.pid, msg)),
              !.result = Failure(r.pid, "prepare", msg, 0, NoBody)]

\* executePurchase, inner catch after the fetch of the retry raised
ExecRetryThrew(r, h) ==
    [r EXCEPT !.pc = "returned", !.events = Append(@, FetchThrew(r.pid, h)),
              !.result = Failure(r.pid, "prepare", FetchFailed, 0, NoBody)]

\* executePurchase, outer catch after the first fetch raised
ExecFirstThrew(r) ==
    [r EXCEPT !.pc = "returned", !.events = Append(@, FetchThrew(r.pid, NoHeader)),
              !.result = Failure(r.pid, "execute", FetchFailed, 0, NoBody)]

\* ------------------------------------------------- purchase entry points
\* names of the products of the catalogue
NameOf(pid) == IF pid = "p1" THEN "n1" ELSE "n2"

\* ShoppingAgent.findProductByName over the stored results (the substring
\* match of names is modelled as equality of names)
RECURSIVE FindProductByName(_, _)
FindProductByName(stored, name) ==
    IF stored = <<>> THEN None
    ELSE IF NameOf(Head(stored)) = name THEN Head(stored)
    ELSE FindProductByName(Tail(stored), name)

\* ShoppingAgent.findProductByIndex, 1-based
FindProductByIndex(stored, k) ==
    IF k \in 1..Len(stored) THEN stored[k] ELSE None

\* inputs of the process_payment tool after its regular expressions ran:
\* each key is absent (None / FALSE) or has a value; first tells whether
\* /(?:first|1st|1)(?:\s|$)/i matches the input. Of an input with a
\* productId the tool reads neither the value of the name nor the word
\* first, so one name and first = FALSE stand for all.
ToolInputs ==
    [productId : {None}, productName : {None, "n1", "nx"},
     price : BOOLEAN, userConfirmed : Confirmations, first : BOOLEAN]
    \cup [productId : ProductIds, productName : {None, "n1"},
          price : BOOLEAN, userConfirmed : Confirmations, first : {FALSE}]

\* inputs of processX402Payment
PaymentInputs ==
    [productId : {None} \cup ProductIds, productName : {None, "n1"},
     price : BOOLEAN, userConfirmed : Confirmations]

Params(pid, name, price, conf) ==
    [productId |-> pid, productName |-> name, price |-> price, userConfirmed |-> conf]

\* process_payment, "Smart product ID resolution": by name, then by the
\* word first, among the stored search results
ToolResolve(inp, stored) ==
    LET byName == IF inp.productName = None THEN None
                  ELSE FindProductByName(stored, inp.productName)
        p1 == IF byName # None
              THEN Params(byName, inp.productName, TRUE, inp.userConfirmed)
              ELSE Params(None, inp.productName, inp.price, inp.userConfirmed)
        byIndex == FindProductByIndex(stored, 1)
    IN IF p1.productId = None /\ inp.first /\ byIndex # None
       THEN Params(byIndex, NameOf(byIndex), TRUE, inp.userConfirmed)
       ELSE p1

\* processX402Payment without its confirmation check
PaymentGateUnconfirmed(inp, inst) ==
    IF inp.productId = None \/ inp.productName = None \/ ~inp.price
    THEN "MissingParameters"
    ELSE IF inst = None THEN "AgentUnavailable"
    ELSE "execute"

\* processX402Payment up to the call of executePurchase: the outcome it
\* returns at once, or "execute"
PaymentGate(inp, inst) ==
    IF inp.userConfirmed # "true" THEN "ConfirmationRequired"
    ELSE IF inp.productId = None \/ inp.productName = None \/ ~inp.price
    THEN "MissingParameters"
    ELSE IF inst = None THEN "AgentUnavailable"
    ELSE "execute"

\* the process_payment tool up to the call of executePurchase
ToolGate(inp, inst, stored) ==
    IF inp.productId = None /\ inst # None /\ stored = <<>>
    THEN "NoProductContext"
    ELSE LET params == IF inp.productId = None /\ inst # None
                       THEN ToolResolve(inp, stored)
                       ELSE Params(inp.productId, inp.productName, inp.price,
                                   inp.userConfirmed)
         IN IF \/ params.productId = None \/ params.productName = None
               \/ ~params.price \/ params.userConfirmed # "true"
            THEN "MissingParametersOrConfirmation"
            ELSE PaymentGate(params, inst)

\* the product id the tool hands to processX402Payment
ToolProductId(inp, inst, stored) ==
    IF inp.productId = None /\ inst # None
    THEN ToolResolve(inp, stored).productId
    ELSE inp.productId

\* names of the agents of the agents API
SessionNames == {"a1", "a2"}
\* the ShoppingAgent object the k-th chat request constructs
ObjectId(k) == "o" \o ToString(k)
ObjectIds == {ObjectId(k) : k \in 1..MaxChats}
\* the place of an object that has not been constructed
NoAgent == [name |-> None, stage |-> "none", lastSearchResults |-> <<>>]

\* ------------------- ApiClient.executePurchase through thirdweb x402/fetch
MaxFused == 2

\* what the x402/fetch endpoint may answer: the merchant's answer to the
\* paid request, 402 for a wallet that needs funding, or an error
FusedResponses(pid) ==
    {[status |-> 200, json |-> TRUE, body |-> b] :
        b \in {PurchaseBody(pid, TxOf(1)), ErrorBody(pid, "declined")}}
    \cup {[status |-> st, json |-> FALSE, body |-> TextBody] : st \in {200, 402, 500}}
    \cup {[status |-> 402, json |-> TRUE, body |-> ShortfallBody],
          [status |-> 404, json |-> TRUE, body |-> ErrorBody(pid, "Product not found")]}

\* { success: false, productId, fundingRequired: true, fundingLink, error }
FundingRequired(pid) ==
    [NoResult EXCEPT !.kind = "failure", !.status = 402, !.error = "funding",
                     !.fundingRequired = TRUE, !.productId = pid]

\* the value returned for the response: response.json() of a body that is
\* no JSON raises, and the catch clause returns the failure
FusedOutcome(pid, resp) ==
    IF resp.status \in {200, 402} /\ ~resp.json
    THEN Failure(pid, "execute", "invalid json", resp.status, resp.body)
    ELSE IF resp.status = 200 THEN Data(200, resp.body)
    ELSE IF resp.status = 402 THEN FundingRequired(pid)
    ELSE Failure(pid, "http", None, resp.status, resp.body)

FusedIdle == [n |-> 0, pid |-> None, pc |-> "idle", calls |-> 0, status |-> 0,
              json |-> FALSE, result |-> NoResult]

\* executePurchase(productId) up to the fetch of the x402/fetch endpoint:
\* without a wallet address or without THIRDWEB_SECRET_KEY it raises, and
\* the catch clause returns the failure
FusedExecute(pid) ==
    /\ fused.pc \in {"idle", "done"}
    /\ fused.n < MaxFused
    /\ LET wallet == IF agentWallet # None THEN agentWallet ELSE globalWallet
           begun == [FusedIdle EXCEPT !.n = fused.n + 1, !.pid = pid]
       IN  fused' =
             IF wallet = None
             THEN [begun EXCEPT !.pc = "done",
                      !.result = Failure(pid, "execute", "No wallet address available", 0, NoBody)]
             ELSE IF ~secretKey
             THEN [begun EXCEPT !.pc = "done",
                      !.result = Failure(pid, "execute", "THIRDWEB_SECRET_KEY not found", 0, NoBody)]
             ELSE [begun EXCEPT !.pc = "called", !.calls = 1]
    /\ UNCHANGED besidesFused

\* the fetch returns a response
FusedResponds(resp) ==
    /\ fused.pc = "called"
    /\ fused' = [fused EXCEPT !.pc = "done", !.status = resp.status, !.json = resp.json,
                              !.result = FusedOutcome(fused.pid, resp)]
    /\ UNCHANGED besidesFused

\* the fetch raises
FusedFetchThrows ==
    /\ fused.pc = "called"
    /\ fused' = [fused EXCEPT !.pc = "done",
                    !.result = Failure(fused.pid, "execute", FetchFailed, 0, NoBody)]
    /\ UNCHANGED besidesFused

FusedNext ==
    \/ \E pid \in ProductIds : FusedExecute(pid)
    \/ \E resp \in FusedResponses(fused.pid) : FusedResponds(resp)
    \/ FusedFetchThrows

\* ---------------------------- AgentWalletService.prepareX402Payment alone
\* values of requirements.maxAmountRequired, as characters
Amounts == {<<"1", "0">>, <<"0">>, <<"-", "5">>, <<"a">>, <<"1", ".", "5">>, <<>>}
\* values of agentWallet.address; None: no agent wallet
Payers == {None, "0x00a1", "agent.eth", ""}

PrepIdle(amount, payer) ==
    [amount |-> amount, payer |-> payer, pc |-> "idle", calls |-> 0, out |-> None]

\* prepareX402Payment(productId, requirements): it raises without a wallet
\* or without THIRDWEB_SECRET_KEY, and else posts { from: address,
\* paymentRequirements: requirements } to the prepare endpoint
PrepareCall ==
    /\ prep.pc = "idle"
    /\ prep' = IF prep.payer = None
               THEN [prep EXCEPT !.pc = "done", !.out = "wallet not initialized"]
               ELSE IF ~secretKey
               THEN [prep EXCEPT !.pc = "done", !.out = "secret key required"]
               ELSE [prep EXCEPT !.pc = "called", !.calls = 1]
    /\ UNCHANGED besidesPrep

\* the prepare endpoint answers: ok - the parsed body, the proof, is
\* returned; not ok - an error is raised; or the fetch raises
PrepareEndpoint(answer) ==
    /\ prep.pc = "called"
    /\ prep' = [prep EXCEPT !.pc = "done", !.out = answer]
    /\ UNCHANGED besidesPrep

PreparerNext ==
    \/ PrepareCall
    \/ \E answer \in {"proof", "prepare endpoint failed", FetchFailed} :
          PrepareEndpoint(answer)

\* ------------------------------------------ agents API: status streaming
MaxSubs == 3
Callbacks == {"f1", "f2"}
Sockets == {"w1"}

\* the callback the n-th call of subscribe got from a 'subscribe' message:
\* a closure created for that message
Closure(n) == "cb" \o ToString(n)

NoSocket == [state |-> "none", unsubscribe |-> 0]
NoCall == [op |-> "none", h |-> 0]
NoDelivery == [agent |-> None, invoked |-> <<>>, threw |-> {}, sent |-> {}]

\* a Map<string, Set<T>> is a function from its keys to the members of the
\* Set in insertion order
Members(map, key) == IF key \in DOMAIN map THEN map[key] ELSE <<>>
Has(seq, x) == \E j \in 1..Len(seq) : seq[j] = x
Without(seq, x) == SelectSeq(seq, LAMBDA y : y # x)

\* if (!map.has(key)) map.set(key, new Set()); map.get(key).add(x)
MapAdd(map, key, x) ==
    LET old == Members(map, key)
        new == IF Has(old, x) THEN old ELSE Append(old, x)
    IN  [k \in DOMAIN map \cup {key} |-> IF k = key THEN new ELSE map[k]]

\* StatusStreamer.subscribe(agentName, callback)
Subscribe(map, agentName, callback) == MapAdd(map, agentName, callback)

\* the function subscribe(agentName, callback) returned, called: a Set
\* left without members is deleted from the map
UnsubscribeKeepingEmpty(map, agentName, callback) ==
    IF agentName \notin DOMAIN map THEN map
    ELSE [map EXCEPT ![agentName] = Without(@, callback)]

Unsubscribe(map, agentName, callback) ==
    IF agentName \notin DOMAIN map THEN map
    ELSE IF Without(map[agentName], callback) = <<>>
    THEN [k \in DOMAIN map \ {agentName} |-> map[k]]
    ELSE [map EXCEPT ![agentName] = Without(@, callback)]

\* StatusStreamer.broadcast(agentName, status): the callbacks called, in
\* order; what a callback throws is caught inside the loop
InvokedUntilThrow(map, agentName, threw) ==
    LET m == Members(map, agentName)
    IN  SelectSeq(m, LAMBDA c : \A j \in 1..Len(m) :
                                   (m[j] \in threw /\ m[j] # c) =>
                                       \E i \in 1..j : m[i] = c)

Invoked(map, agentName, threw) == Members(map, agentName)

\* the 'close' handler: connections.delete(ws) for every entry of
\* agentConnections, the entries left empty deleted
ConnectionsWithout(map, w) ==
    LET keep == {k \in DOMAIN map : Without(map[k], w) # <<>>}
    IN  [k \in keep |-> Without(map[k], w)]

\* a call of an unsubscribe function is counted up to 2
Handle(agentName, callback, socket) ==
    [agent |-> agentName, cb |-> callback, ws |-> socket, calls |-> 0]
Called(h) == [h EXCEPT !.calls = IF @ < 2 THEN @ + 1 ELSE @]

NoStreamer ==
    /\ subscribers = <<>>
    /\ agentConnections = <<>>
    /\ sockets = [w \in Sockets |-> NoSocket]
    /\ handles = <<>>
    /\ subscribed = {}
    /\ lastCall = NoCall
    /\ delivered = NoDelivery

\* statusStreamer.subscribe(agentName, callback) called by any code
StreamerSubscribe(agentName, callback) ==
    /\ Len(handles) < MaxSubs
    /\ subscribers' = Subscribe(subscribers, agentName, callback)
    /\ handles' = Append(handles, Handle(agentName, callback, None))
    /\ subscribed' = subscribed \cup {<<agentName, callback>>}
    /\ lastCall' = [op |-> "subscribe", h |-> Len(handles) + 1]
    /\ delivered' = NoDelivery
    /\ UNCHANGED <<agentConnections, sockets>>
    /\ UNCHANGED besidesStream

\* the caller calls the unsubscribe function it was given
StreamerUnsubscribe(h) ==
    /\ handles[h].ws = None
    /\ subscribers' = Unsubscribe(subscribers, handles[h].agent, handles[h].cb)
    /\ handles' = [handles EXCEPT ![h] = Called(@)]
    /\ subscribed' = subscribed \ {<<handles[h].agent, handles[h].cb>>}
    /\ lastCall' = [op |-> "unsubscribe", h |-> h]
    /\ delivered' = NoDelivery
    /\ UNCHANGED <<agentConnections, sockets>>
    /\ UNCHANGED besidesStream

\* statusStreamer.broadcast(agentName, status); the callback of a
\* connection sends the status if its socket is open
Broadcast(agentName, threw) ==
    /\ threw \subseteq {Members(subscribers, agentName)[j] :
                         j \in 1..Len(Members(subscribers, agentName))}
    /\ LET inv == Invoked(subscribers, agentName, threw)
       IN  delivered' =
             [agent |-> agentName, invoked |-> inv, threw |-> threw,
              sent |-> {handles[n].ws : n \in {n \in 1..Len(handles) :
                            /\ handles[n].ws # None
                            /\ Has(inv, handles[n].cb)
                            /\ handles[n].agent = agentName
                            /\ sockets[handles[n].ws].state = "open"}}]
    /\ lastCall' = [op |-> "broadcast", h |-> 0]
    /\ UNCHANGED <<subscribers, agentConnections, sockets, handles, subscribed>>
    /\ UNCHANGED besidesStream

\* wss.on('connection')
WsConnect(w) ==
    /\ sockets[w].state = "none"
    /\ sockets' = [sockets EXCEPT ![w].state = "open"]
    /\ UNCHANGED <<subscribers, agentConnections, handles, subscribed, lastCall,
                   delivered>>
    /\ UNCHANGED besidesStream

\* ws.on('message') with {type: 'subscribe', agentName}: the connection is
\* added to agentConnections, a new callback subscribed, and the function
\* subscribe returned stored in ws.unsubscribe
WsMessage(w, agentName) ==
    /\ sockets[w].state = "open"
    /\ Len(handles) < MaxSubs
    /\ LET n == Len(handles) + 1
       IN  /\ agentConnections' = MapAdd(agentConnections, agentName, w)
           /\ subscribers' = Subscribe(subscribers, agentName, Closure(n))
           /\ handles' = Append(handles, Handle(agentName, Closure(n), w))
           /\ subscribed' = subscribed \cup {<<agentName, Closure(n)>>}
           /\ sockets' = [sockets EXCEPT ![w].unsubscribe = n]
           /\ lastCall' = [op |-> "subscribe", h |-> n]
    /\ delivered' = NoDelivery
    /\ UNCHANGED besidesStream

\* ws.on('close'): if (ws.unsubscribe) ws.unsubscribe(); then the
\* connection is deleted from every set of agentConnections
WsClose(w) ==
    /\ sockets[w].state = "open"
    /\ sockets' = [sockets EXCEPT ![w].state = "closed"]
    /\ LET u == sockets[w].unsubscribe
       IN  IF u # 0
           THEN /\ subscribers' = Unsubscribe(subscribers, handles[u].agent, handles[u].cb)
                /\ handles' = [handles EXCEPT ![u] = Called(@)]
                /\ subscribed' = subscribed \ {<<handles[u].agent, handles[u].cb>>}
                /\ lastCall' = [op |-> "unsubscribe", h |-> u]
                /\ delivered' = NoDelivery
           ELSE UNCHANGED <<subscribers, handles, subscribed, lastCall, delivered>>
    /\ agentConnections' = ConnectionsWithout(agentConnections, w)
    /\ UNCHANGED besidesStream

StreamerNext ==
    \/ \E a \in SessionNames, c \in Callbacks : StreamerSubscribe(a, c)
    \/ \E h \in 1..Len(handles) : StreamerUnsubscribe(h)
    \/ \E a \in SessionNames, threw \in SUBSET (Callbacks \cup {Closure(n) : n \in 1..MaxSubs}) :
          Broadcast(a, threw)
    \/ \E w \in Sockets : WsConnect(w)
    \/ \E w \in Sockets, a \in SessionNames : WsMessage(w, a)
    \/ \E w \in Sockets : WsClose(w)

\* ------------------------------------------- frontend: WebSocketService
MaxSockets == 3
MaxStatus == 1
maxReconnectAttempts == 5
FeCallbacks == {"f1"}

\* new WebSocket(wsUrl); auto: created by the timer of attemptReconnect;
\* subs: the agents the server subscribed this connection to
NewSocket(auto) == [state |-> "connecting", auto |-> auto, subs |-> {}]

NoTimers == [reconnect |-> 0, retry |-> {}]
NoNotification == [n |-> 0, agent |-> None, callbacks |-> {}]

IsOpen(i) == i # 0 /\ feSockets[i].state = "open"

\* attemptReconnect(): counts the attempt and sets a timer that calls
\* connect(), unless maxReconnectAttempts were made
AttemptsAfter(n) == IF n < maxReconnectAttempts THEN n + 1 ELSE n
TimersAfter(t, n) ==
    IF n < maxReconnectAttempts THEN [t EXCEPT !.reconnect = @ + 1] ELSE t

NoFrontend ==
    /\ ws = 0
    /\ feSockets = <<>>
    /\ reconnectAttempts = 0
    /\ timers = NoTimers
    /\ feSubscribers = <<>>
    /\ notified = NoNotification
    /\ disconnected = FALSE

NoExtras == NoStreamer /\ NoFrontend /\ fused = None /\ prep = None

\* connect(), called by the application (ChatInterface's effect)
FeConnect ==
    /\ Len(feSockets) < MaxSockets
    /\ feSockets' = Append(feSockets, NewSocket(FALSE))
    /\ ws' = Len(feSockets) + 1
    /\ disconnected' = FALSE
    /\ UNCHANGED <<reconnectAttempts, timers, feSubscribers, notified>>
    /\ UNCHANGED besidesFront

\* the timer of attemptReconnect fires: connect()
ReconnectTimer ==
    /\ timers.reconnect > 0
    /\ Len(feSockets) < MaxSockets
    /\ timers' = [timers EXCEPT !.reconnect = @ - 1]
    /\ feSockets' = Append(feSockets, NewSocket(TRUE))
    /\ ws' = Len(feSockets) + 1
    /\ UNCHANGED <<reconnectAttempts, feSubscribers, notified, disconnected>>
    /\ UNCHANGED besidesFront

\* onopen of socket i
SocketOpens(i) ==
    /\ feSockets[i].state = "connecting"
    /\ feSockets' = [feSockets EXCEPT ![i].state = "open"]
    /\ reconnectAttempts' = 0
    /\ UNCHANGED <<ws, timers, feSubscribers, notified, disconnected>>
    /\ UNCHANGED besidesFront

\* onclose of socket i - the connection could not be made, was lost or
\* was closed by close() - calls attemptReconnect(); the server drops the
\* subscriptions of the connection
SocketCloses(i) ==
    /\ feSockets[i].state \in {"connecting", "open", "closing"}
    /\ feSockets' = [feSockets EXCEPT ![i].state = "closed", ![i].subs = {}]
    /\ reconnectAttempts' = AttemptsAfter(reconnectAttempts)
    /\ timers' = TimersAfter(timers, reconnectAttempts)
    /\ UNCHANGED <<ws, feSubscribers, notified, disconnected>>
    /\ UNCHANGED besidesFront

\* subscribeToAgent(agentName): the subscribe message is sent on this.ws
\* if it is open, else a timer is set that calls subscribeToAgent again
SubscribeToAgent(agentName) ==
    IF IsOpen(ws)
    THEN /\ feSockets' = [feSockets EXCEPT ![ws].subs = @ \cup {agentName}]
         /\ timers' = [timers EXCEPT !.retry = @ \ {agentName}]
    ELSE /\ timers' = [timers EXCEPT !.retry = @ \cup {agentName}]
         /\ UNCHANGED feSockets

\* subscribe(agentName, callback)
FeSubscribe(agentName, callback) ==
    /\ feSubscribers' = MapAdd(feSubscribers, agentName, callback)
    /\ SubscribeToAgent(agentName)
    /\ UNCHANGED <<ws, reconnectAttempts, notified, disconnected>>
    /\ UNCHANGED besidesFront

\* the retry timer of subscribeToAgent(agentName) fires; while this.ws is
\* not open it only sets itself again
RetryTimer(agentName) ==
    /\ agentName \in timers.retry
    /\ IsOpen(ws)
    /\ SubscribeToAgent(agentName)
    /\ UNCHANGED <<ws, reconnectAttempts, feSubscribers, notified, disconnected>>
    /\ UNCHANGED besidesFront

\* the function subscribe returned, called
FeUnsubscribe(agentName, callback) ==
    /\ Has(Members(feSubscribers, agentName), callback)
    /\ feSubscribers' = Unsubscribe(feSubscribers, agentName, callback)
    /\ UNCHANGED <<ws, feSockets, reconnectAttempts, timers, notified, disconnected>>
    /\ UNCHANGED besidesFront

\* the server broadcasts a status of the agent: the message reaches the
\* open connections subscribed to the agent, whose onmessage calls
\* notifySubscribers
ServerStatus(agentName) ==
    /\ notified.n < MaxStatus
    /\ LET m == Members(feSubscribers, agentName)
           reached == \E i \in 1..Len(feSockets) :
                         IsOpen(i) /\ agentName \in feSockets[i].subs
       IN  notified' = [n |-> notified.n + 1, agent |-> agentName,
                        callbacks |-> IF reached THEN {m[j] : j \in 1..Len(m)} ELSE {}]
    /\ UNCHANGED <<ws, feSockets, reconnectAttempts, timers, feSubscribers, disconnected>>
    /\ UNCHANGED besidesFront

\* disconnect(): this.ws.close(), this.ws = null, subscribers.clear()
FeDisconnect ==
    /\ feSockets' = IF ws # 0 /\ feSockets[ws].state \in {"connecting", "open"}
                    THEN [feSockets EXCEPT ![ws].state = "closing"]
                    ELSE feSockets
    /\ ws' = 0
    /\ feSubscribers' = <<>>
    /\ disconnected' = TRUE
    /\ UNCHANGED <<reconnectAttempts, timers, notified>>
    /\ UNCHANGED besidesFront

FrontendNext ==
    \/ FeConnect
    \/ ReconnectTimer
    \/ \E i \in 1..Len(feSockets) : SocketOpens(i)
    \/ \E i \in 1..Len(feSockets) : SocketCloses(i)
    \/ \E a \in SessionNames, c \in FeCallbacks : FeSubscribe(a, c)
    \/ \E a \in SessionNames : RetryTimer(a)
    \/ \E a \in SessionNames, c \in FeCallbacks : FeUnsubscribe(a, c)
    \/ \E a \in SessionNames : ServerStatus(a)
    \/ FeDisconnect

\* the agents API after start-up: const agentSessions = new Map()
NoSessions0 ==
    /\ shoppingAgents = [o \in ObjectIds |-> NoAgent]
    /\ agentSessions = [n \in SessionNames |-> None]
    /\ chats = <<>>
    /\ purchaseLog = <<>>
    /\ consoleCapture = <<>>
    /\ statusLog = {}

NoSessions == NoSessions0 /\ NoExtras

\* the agent process after start-up: no ShoppingAgent initialized yet, the
\* wallets and the secret key as the environment provides them
ClientInit ==
    /\ NoSessions
    /\ agentInstance = None
    /\ lastSearchResults = <<>>
    /\ agentWallet \in {None, "wA"}
    /\ globalWallet \in {None, "wG"}
    /\ secretKey \in BOOLEAN
    /\ agents = {}
    /\ run = Idle
    /\ runs = 0

\* no agent process at all
NoClient ==
    /\ NoSessions
    /\ agentInstance = None
    /\ lastSearchResults = <<>>
    /\ agentWallet = None
    /\ globalWallet = None
    /\ secretKey = FALSE
    /\ agents = {}
    /\ run = Idle
    /\ runs = 0

\* what a resource server other than the merchant may answer
OtherAnswers(pid) ==
    {[status |-> 200, body |-> PurchaseBody(pid, ref)] : ref \in {TxOf(1), UndefinedRef}}
    \cup {[status |-> 200, body |-> ErrorBody(pid, "declined")]}
    \cup {[status |-> 402, body |-> EnvelopeBody(a)] : a \in AcceptsValues}
    \cup {[status |-> 500, body |-> RejectBody("server error")]}
    \cup {[status |-> st, body |-> TextBody] : st \in {200, 402}}

OtherAnswer(i) ==
    /\ reqs[i].stage = "other"
    /\ \E a \in OtherAnswers(reqs[i].pid) :
          reqs' = [reqs EXCEPT ![i] = Respond(@, a.status, a.body)]
    /\ UNCHANGED <<variant, baseUrl, productCache, ledger>>
    /\ UNCHANGED clientVars

MerchantInit ==
    /\ baseUrl = "merchant"
    /\ variant \in {"txHash", "txId"}
    /\ productCache = {}
    /\ reqs = <<>>
    /\ ledger = [n \in Nonces |-> Unsettled]

MerchantNext ==
    \/ \E pid \in ProductIds : CatalogGet(pid)
    \/ \E pid \in ProductIds, h \in Headers : PostRaw(pid, h)
    \/ \E i \in 1..Len(reqs) : SettleReturns(i)
    \/ \E i \in 1..Len(reqs) : LookupReturns(i)

\* the merchant under requests of arbitrary HTTP clients
InitMerchant == MerchantInit /\ NoClient
SpecMerchant == InitMerchant /\ [][MerchantNext]_vars

\* --------------------------------------------------------- client actions
RemoveAt(q, i) == SubSeq(q, 1, i - 1) \o SubSeq(q, i + 1, Len(q))

CanInvoke == run.pc \in {"idle", "done"} /\ runs < MaxRuns

Fresh(entry, conf, gate, pid) ==
    [Idle EXCEPT !.entry = entry, !.confirmed = conf, !.gate = gate, !.pid = pid]

\* the caller of executePurchase maps the returned value to its own outcome:
\* processX402Payment and the tool by the success member
Finish(r) ==
    IF r.pc # "returned" THEN r
    ELSE [r EXCEPT !.pc = "done",
                   !.out = IF r.entry = "direct" THEN "returned"
                           ELSE IF ResultSuccess(r.result) THEN "PaymentSuccessful"
                           ELSE IF r.result.fundingRequired THEN "FundingRequired"
                           ELSE "PaymentFailed"]

\* executePurchase, step 1: the request without payment header is sent, or
\* fetch rejects and the outer catch returns the failure
ExecuteStart(r) ==
    LET r1 == [r EXCEPT !.events = Append(@, Fetch(r.pid, NoHeader))] IN
    \/ /\ Arrive("apiClient", r.pid, NoHeader, r.gate)
       /\ run' = [r1 EXCEPT !.pc = "await1"]
    \/ /\ run' = Finish(ExecFirstThrew(r1))
       /\ UNCHANGED merchantVars

\* whether pid is the id of one of the stored search results
Known(pid, stored) == \E k \in 1..Len(stored) : stored[k] = pid

\* the process_payment tool is called with an input
ToolInvoke(inp) ==
    /\ CanInvoke
    /\ runs' = runs + 1
    /\ LET g == ToolGate(inp, agentInstance, lastSearchResults)
           pid == ToolProductId(inp, agentInstance, lastSearchResults)
           r == [Fresh("tool", inp.userConfirmed, TRUE, pid)
                    EXCEPT !.known = Known(pid, lastSearchResults)]
       IN IF g = "execute"
          THEN ExecuteStart(r)
          ELSE /\ run' = [r EXCEPT !.pc = "done", !.out = g, !.gate = FALSE]
               /\ UNCHANGED merchantVars
    /\ UNCHANGED configVars

\* processX402Payment is called with an input
PaymentInvoke(inp) ==
    /\ CanInvoke
    /\ runs' = runs + 1
    /\ LET g == PaymentGate(inp, agentInstance)
           r == [Fresh("payment", inp.userConfirmed, TRUE, inp.productId)
                    EXCEPT !.known = Known(inp.productId, lastSearchResults)]
       IN IF g = "execute"
          THEN ExecuteStart(r)
          ELSE /\ run' = [r EXCEPT !.pc = "done", !.out = g, !.gate = FALSE]
               /\ UNCHANGED merchantVars
    /\ UNCHANGED configVars

\* ApiClient.executePurchase is called directly
DirectExecute(pid) ==
    /\ CanInvoke
    /\ runs' = runs + 1
    /\ ExecuteStart(Fresh("direct", "absent", FALSE, pid))
    /\ UNCHANGED configVars

\* the response of the merchant reaches executePurchase
ClientReceive ==
    /\ run.pc \in {"await1", "await2"}
    /\ \E i \in 1..Len(reqs) :
          /\ reqs[i].from = "apiClient" /\ Answered(reqs[i])
          /\ reqs' = RemoveAt(reqs, i)
          /\ LET got == [run EXCEPT !.received = Append(@,
                             [status |-> reqs[i].status, body |-> reqs[i].body])]
             IN run' = Finish(IF run.pc = "await1"
                              THEN ExecFirstResponse(got, reqs[i].status, reqs[i].body)
                              ELSE ExecRetryResponse(got, reqs[i].status, reqs[i].body))
    /\ UNCHANGED <<variant, baseUrl, productCache, ledger, runs>>
    /\ UNCHANGED configVars

\* prepareX402Payment returns or throws; on success step 3 retries the
\* request with the x-payment header; an exception of the preparer or of
\* the retry's fetch is caught by the inner catch
PrepareReturns ==
    /\ run.pc = "preparing"
    /\ \E o \in PrepareOutcomes(run.req, EffectiveWallet(agentWallet, globalWallet),
                                secretKey) :
          LET r1 == [run EXCEPT !.events =
                        IF o.signed THEN Append(@, Ev("sign", run.pid, o.header, run.req))
                        ELSE @]
              r2 == [r1 EXCEPT !.events = Append(@, Fetch(run.pid, o.header))]
          IN IF o.ok
             THEN \/ /\ Arrive("apiClient", run.pid, o.header, run.gate)
                     /\ run' = [r2 EXCEPT !.pc = "await2"]
                  \/ /\ run' = Finish(ExecRetryThrew(r2, o.header))
                     /\ UNCHANGED merchantVars
             ELSE /\ run' = Finish(ExecPrepareThrew(r1, o.msg))
                  /\ UNCHANGED merchantVars
    /\ UNCHANGED runs
    /\ UNCHANGED configVars

\* AgentManager.createAgent stores the wallet of a new agent
CreateAgent(name) ==
    /\ name \notin agents
    /\ agents' = agents \cup {name}
    /\ UNCHANGED <<agentInstance, lastSearchResults, agentWallet, globalWallet,
                   secretKey, run, runs, sessionVars, extraVars>>
    /\ UNCHANGED merchantVars

\* AgentManager.makePurchase: throws for an unknown agent, else posts to
\* the purchase URL without payment header
MakePurchase(pid, name) ==
    /\ CanInvoke
    /\ runs' = runs + 1
    /\ LET r == Fresh("manager", "absent", FALSE, pid)
           r1 == [r EXCEPT !.events = Append(@, Fetch(pid, NoHeader))]
       IN IF name \notin agents
          THEN /\ run' = [r EXCEPT !.pc = "done", !.out = "AgentNotFound"]
               /\ UNCHANGED merchantVars
          ELSE \/ /\ Arrive("agentManager", pid, NoHeader, FALSE)
                  /\ run' = [r1 EXCEPT !.pc = "awaitManager"]
               \/ /\ run' = [r1 EXCEPT !.pc = "done", !.out = "threw"]
                  /\ UNCHANGED merchantVars
    /\ UNCHANGED configVars

\* the response of the merchant reaches makePurchase
ManagerReceive ==
    /\ run.pc = "awaitManager"
    /\ \E i \in 1..Len(reqs) :
          /\ reqs[i].from = "agentManager" /\ Answered(reqs[i])
          /\ reqs' = RemoveAt(reqs, i)
          /\ LET got == [run EXCEPT !.received = Append(@,
                             [status |-> reqs[i].status, body |-> reqs[i].body])]
             IN run' = IF Ok(reqs[i].status)
                       THEN [got EXCEPT !.pc = "done", !.out = "returned",
                                        !.result = Data(reqs[i].status, reqs[i].body)]
                       ELSE [got EXCEPT !.pc = "done", !.out = "threw"]
    /\ UNCHANGED <<variant, baseUrl, productCache, ledger, runs>>
    /\ UNCHANGED configVars

\* ShoppingAgent.initialize registers the agent as the tools' agentInstance
InitializeAgent(name) ==
    /\ agentInstance = None
    /\ agentInstance' = name
    /\ UNCHANGED <<lastSearchResults, agentWallet, globalWallet, secretKey,
                   agents, run, runs, sessionVars, extraVars>>
    /\ UNCHANGED merchantVars

\* the get_products tool: the merchant generates and caches the products,
\* the tool stores them in the agent instance, when there is one
SearchResults == {<<"p1">>, <<"p2", "p1">>}
SearchProducts(found) ==
    /\ run.pc \in {"idle", "done"}
    /\ lastSearchResults # found
    /\ productCache' = productCache \cup {found[k] : k \in 1..Len(found)}
    /\ lastSearchResults' = IF agentInstance # None THEN found ELSE lastSearchResults
    /\ UNCHANGED <<variant, baseUrl, reqs, ledger, agentInstance, agentWallet, globalWallet,
                   secretKey, agents, run, runs, sessionVars, extraVars>>

ClientNext ==
    \/ \E inp \in ToolInputs : ToolInvoke(inp)
    \/ \E inp \in PaymentInputs : PaymentInvoke(inp)
    \/ \E pid \in ProductIds : DirectExecute(pid)
    \/ \E pid \in ProductIds, name \in AgentNames : MakePurchase(pid, name)
    \/ \E name \in AgentNames : CreateAgent(name)
    \/ \E name \in AgentNames : InitializeAgent(name)
    \/ \E found \in SearchResults : SearchProducts(found)
    \/ ClientReceive
    \/ ManagerReceive
    \/ PrepareReturns
    \/ \E pid \in ProductIds : CatalogGet(pid)
    \/ \E i \in 1..Len(reqs) : SettleReturns(i)
    \/ \E i \in 1..Len(reqs) : LookupReturns(i)
    \/ \E i \in 1..Len(reqs) : OtherAnswer(i)

\* the agent process (tools, ApiClient, AgentManager) against the merchant
\* or against another resource server
ServerInit ==
    /\ baseUrl \in {"merchant", "other"}
    /\ variant \in {"txHash", "txId"}
    /\ productCache = {}
    /\ reqs = <<>>
    /\ ledger = [n \in Nonces |-> Unsettled]

InitClient == ServerInit /\ ClientInit
SpecClient == InitClient /\ [][ClientNext]_vars

\* ------------------------------------------- agents API: agent sessions
\* the variables no handler of the agents API touches
idleVars == <<variant, baseUrl, reqs, ledger, lastSearchResults, agentWallet,
              globalWallet, secretKey, run, runs, extraVars>>

Chat(name, pc, agent, out) ==
    [name |-> name, pc |-> pc, agent |-> agent, calls |-> 0, out |-> out]

\* a call of StatusStreamer.broadcast(under, status) made while the chat
\* request k was processed
Status(k, under) == [chat |-> k, under |-> under]

\* console.log(line) with a line that matches a status pattern, while chat
\* request k is processed: every wrapper of the chain calls the original
\* it captured and then broadcasts under the agent name it was set up for
ConsoleLog(k, chain) == {Status(k, chain[j]) : j \in 1..Len(chain)}

\* POST /api/agents/:name/chat up to the first await: 404 for an agent the
\* AgentManager does not know; getOrCreateShoppingAgent returns the stored
\* session - then setupConsoleCapture(name) and the 'processing' status
\* follow - or constructs a ShoppingAgent with the agent's wallet and
\* awaits the health check of its initialize()
ChatArrive(name) ==
    /\ Len(chats) < MaxChats
    /\ LET k == Len(chats) + 1
           o == ObjectId(k)
       IN
       IF name \notin agents
       THEN /\ chats' = Append(chats, Chat(name, "done", None, "AgentNotFound"))
            /\ UNCHANGED <<shoppingAgents, consoleCapture, statusLog>>
       ELSE IF agentSessions[name] # None
       THEN /\ chats' = Append(chats, Chat(name, "processing", agentSessions[name], None))
            /\ consoleCapture' = Append(consoleCapture, name)
            /\ statusLog' = statusLog \cup {Status(k, name)}
            /\ UNCHANGED shoppingAgents
       ELSE /\ chats' = Append(chats, Chat(name, "health", o, None))
            /\ shoppingAgents' = [shoppingAgents EXCEPT ![o] =
                                     [NoAgent EXCEPT !.name = name, !.stage = "constructed"]]
            /\ UNCHANGED <<consoleCapture, statusLog>>
    /\ UNCHANGED <<agentSessions, purchaseLog, agentInstance, agents, productCache>>
    /\ UNCHANGED idleVars

\* ShoppingAgent.initialize after the health check: an unavailable backend
\* makes it throw, getOrCreateShoppingAgent return null and the chat
\* request answer 500; else setAgentInstance(this) and the await of
\* createReactAgent
HealthChecked(k, healthy) ==
    /\ chats[k].pc = "health"
    /\ IF healthy
       THEN /\ agentInstance' = chats[k].agent
            /\ chats' = [chats EXCEPT ![k].pc = "building"]
       ELSE /\ chats' = [chats EXCEPT ![k].pc = "done", ![k].out = "SessionFailed"]
            /\ UNCHANGED agentInstance
    /\ UNCHANGED <<shoppingAgents, agentSessions, purchaseLog, consoleCapture,
                   statusLog, agents, productCache>>
    /\ UNCHANGED idleVars

\* initialize() returned: agentSessions.set(agentName, shoppingAgent); the
\* chat handler calls setupConsoleCapture(name), broadcasts 'processing'
\* and awaits shoppingAgent.processRequest(message)
SessionStored(k) ==
    /\ chats[k].pc = "building"
    /\ agentSessions' = [agentSessions EXCEPT ![chats[k].name] = chats[k].agent]
    /\ shoppingAgents' = [shoppingAgents EXCEPT ![chats[k].agent].stage = "initialized"]
    /\ chats' = [chats EXCEPT ![k].pc = "processing"]
    /\ consoleCapture' = Append(consoleCapture, chats[k].name)
    /\ statusLog' = statusLog \cup {Status(k, chats[k].name)}
    /\ UNCHANGED <<purchaseLog, agentInstance, agents, productCache>>
    /\ UNCHANGED idleVars

\* the executor of the chat's ShoppingAgent calls the get_products tool:
\* getProducts logs 'Searching for products', the merchant caches the
\* products and the tool stores them in the module-level agentInstance
ChatSearch(k, found) ==
    /\ chats[k].pc = "processing" /\ chats[k].calls < MaxToolCalls
    /\ chats' = [chats EXCEPT ![k].calls = @ + 1]
    /\ statusLog' = statusLog \cup ConsoleLog(k, consoleCapture)
    /\ productCache' = productCache \cup {found[j] : j \in 1..Len(found)}
    /\ shoppingAgents' = IF agentInstance # None
                         THEN [shoppingAgents EXCEPT ![agentInstance].lastSearchResults = found]
                         ELSE shoppingAgents
    /\ UNCHANGED <<agentSessions, purchaseLog, consoleCapture, agentInstance, agents>>
    /\ UNCHANGED idleVars

\* inputs the executor gives the process_payment tool: all parameters, or
\* the product by its name only
SessionToolInputs ==
    {[productId |-> "p1", productName |-> "n1", price |-> TRUE,
      userConfirmed |-> "true", first |-> FALSE],
     [productId |-> None, productName |-> "n1", price |-> FALSE,
      userConfirmed |-> "true", first |-> FALSE]}

\* a call of apiClient.executePurchase(pid) by the payment tool: the chat
\* request and the ShoppingAgent it was made for (via), and the object
\* whose search results and apiClient the tool used (by)
Purchase(k, via, by, pid) == [chat |-> k, via |-> via, by |-> by, pid |-> pid]

\* the executor of the chat's ShoppingAgent calls the process_payment tool:
\* the tool resolves the product in the search results of the module-level
\* agentInstance, and processX402Payment logs 'Executing purchase for' and
\* calls executePurchase of the apiClient of that agentInstance
ChatPurchase(k, inp) ==
    /\ chats[k].pc = "processing" /\ chats[k].calls < MaxToolCalls
    /\ chats' = [chats EXCEPT ![k].calls = @ + 1]
    /\ LET stored == IF agentInstance = None THEN <<>>
                     ELSE shoppingAgents[agentInstance].lastSearchResults
           go == ToolGate(inp, agentInstance, stored) = "execute"
       IN /\ purchaseLog' =
                IF go
                THEN Append(purchaseLog,
                            Purchase(k, chats[k].agent, agentInstance,
                                     ToolProductId(inp, agentInstance, stored)))
                ELSE purchaseLog
          /\ statusLog' = IF go THEN statusLog \cup ConsoleLog(k, consoleCapture)
                          ELSE statusLog
    /\ UNCHANGED <<shoppingAgents, agentSessions, consoleCapture, agentInstance,
                   agents, productCache>>
    /\ UNCHANGED idleVars

\* processRequest returned: the chat handler broadcasts 'completed' and
\* sends its response
ChatRespond(k) ==
    /\ chats[k].pc = "processing"
    /\ chats' = [chats EXCEPT ![k].pc = "done", ![k].out = "responded"]
    /\ statusLog' = statusLog \cup {Status(k, chats[k].name)}
    /\ UNCHANGED <<shoppingAgents, agentSessions, purchaseLog, consoleCapture,
                   agentInstance, agents, productCache>>
    /\ UNCHANGED idleVars

SessionsNext ==
    \/ \E name \in SessionNames : CreateAgent(name)
    \/ \E name \in SessionNames : ChatArrive(name)
    \/ \E k \in 1..Len(chats), healthy \in BOOLEAN : HealthChecked(k, healthy)
    \/ \E k \in 1..Len(chats) : SessionStored(k)
    \/ \E k \in 1..Len(chats), found \in SearchResults : ChatSearch(k, found)
    \/ \E k \in 1..Len(chats), inp \in SessionToolInputs : ChatPurchase(k, inp)
    \/ \E k \in 1..Len(chats) : ChatRespond(k)

\* the agents API process: agents are created and chat with their
\* sessions; the purchases themselves are those of the agent process above
InitSessions ==
    /\ baseUrl = "merchant"
    /\ variant = "txId"
    /\ productCache = {}
    /\ reqs = <<>>
    /\ ledger = [n \in Nonces |-> Unsettled]
    /\ NoClient
SpecSessions == InitSessions /\ [][SessionsNext]_vars

\* the agents API with its WebSocket connections and the users of its
\* StatusStreamer
SpecStreamer == InitSessions /\ [][StreamerNext]_vars

\* purchases of an ApiClient that pays through the x402/fetch endpoint,
\* with the wallets and the secret key as the environment provides them
InitFused ==
    /\ MerchantInit /\ variant = "txId"
    /\ NoSessions0
    /\ NoStreamer /\ NoFrontend /\ prep = None
    /\ agentInstance = None /\ lastSearchResults = <<>> /\ agents = {}
    /\ run = Idle /\ runs = 0
    /\ agentWallet \in {None, "wA"}
    /\ globalWallet \in {None, "wG"}
    /\ secretKey \in BOOLEAN
    /\ fused = FusedIdle
SpecFused == InitFused /\ [][FusedNext]_vars

\* calls of the proof preparer with any requirements and any wallet
InitPreparer ==
    /\ MerchantInit /\ variant = "txId"
    /\ NoSessions0
    /\ NoStreamer /\ NoFrontend /\ fused = None
    /\ agentInstance = None /\ lastSearchResults = <<>> /\ agents = {}
    /\ run = Idle /\ runs = 0
    /\ agentWallet = None /\ globalWallet = None
    /\ secretKey \in BOOLEAN
    /\ prep \in {PrepIdle(a, p) : a \in Amounts, p \in Payers}
SpecPreparer == InitPreparer /\ [][PreparerNext]_vars

\* the frontend's WebSocketService with its sockets, its timers and the
\* server's status messages
SpecFrontend == InitSessions /\ [][FrontendNext]_vars

\* ------------------------------------------------------------ properties
\* C1: the purchase route sends a success response (HTTP 200, success: true)
\* for a request only if settlePayment was called for that request and
\* returned status 200; an unknown product, a 402 verdict, any other verdict
\* and an exception never produce a success body.
C1_SuccessOnlyAfterSettled ==
    \A i \in 1..Len(reqs) :
        (Answered(reqs[i]) /\ (reqs[i].status = 200 \/ reqs[i].body.success)) =>
            /\ reqs[i].status = 200 /\ reqs[i].body.success
            /\ reqs[i].calls = <<reqs[i].header>>
            /\ ~reqs[i].verdict.threw
            /\ reqs[i].verdict.status = 200

C1_Witness ==
    \E i \in 1..Len(reqs) :
        Answered(reqs[i]) /\ reqs[i].status = 200 /\ reqs[i].body.success

\* C5: the same valid proof (same nonce) submitted twice to the purchase
\* route never yields two 200 responses carrying distinct payment references.
C5_SameProofSameReference ==
    \A i, j \in 1..Len(reqs) :
        ( /\ i # j
          /\ reqs[i].header.kind = "proof"
          /\ reqs[i].header = reqs[j].header
          /\ Answered(reqs[i]) /\ reqs[i].status = 200
          /\ Answered(reqs[j]) /\ reqs[j].status = 200 )
        => reqs[i].body.ref = reqs[j].body.ref

\* C6: a proof whose validBefore is in the past is answered Rejected and is
\* never handed to settlePayment.
C6_ExpiredNeverSettled ==
    \A i \in 1..Len(reqs) :
        (reqs[i].header.kind = "proof" /\ reqs[i].header.expired) =>
            /\ reqs[i].calls = <<>>
            /\ Answered(reqs[i]) => reqs[i].status \in (400..499) \ {402}

\* C7: a malformed x-payment header is answered with a 400-class rejection
\* and never with 402.
C7_MalformedRejected4xx ==
    \A i \in 1..Len(reqs) :
        (reqs[i].header.kind = "malformed" /\ Answered(reqs[i])) =>
            reqs[i].status \in (400..499) \ {402}

\* the verdicts by which the collaborator reports that the payer cannot
\* cover the amount: the 402 status with that error, or an exception
Insufficient(v) ==
    \/ v.threw /\ v.msg = "insufficient funds"
    \/ ~v.threw /\ v.status = 402 /\ v.body.error = "insufficient funds"

\* the verdicts by which the collaborator rejects a proof: a status other
\* than 200 and 402, or an exception about the signature
Rejecting(v) ==
    \/ v.threw /\ v.msg = "invalid signature"
    \/ ~v.threw /\ v.status \notin {200, 402}

\* the requests whose proof the collaborator has judged
Judged(i) ==
    /\ Answered(reqs[i]) /\ reqs[i].header.kind = "proof"
    /\ reqs[i].calls # <<>>

\* C13: every 200 response of the purchase route has a body with success
\* true, the product id of the request and a defined payment reference taken
\* from the settlement result (the transaction id or its hash).
C13_SuccessBodyComplete ==
    \A i \in 1..Len(reqs) :
        (Answered(reqs[i]) /\ reqs[i].status = 200) =>
            /\ reqs[i].body.success
            /\ reqs[i].body.productId = reqs[i].pid
            /\ reqs[i].body.ref \notin {NoRef, UndefinedRef}
            /\ reqs[i].verdict.tx # NoTx
            /\ reqs[i].body.ref \in {reqs[i].verdict.tx, HashOf(reqs[i].verdict.tx)}

\* C18: when the collaborator reports insufficient funds for a submitted
\* proof, as a verdict status or by raising an error, the purchase route
\* answers 402 and never a 5xx or another rejection.
C18_InsufficientAnswers402 ==
    \A i \in 1..Len(reqs) :
        (Judged(i) /\ Insufficient(reqs[i].verdict)) => reqs[i].status = 402

\* C19: when the collaborator rejects a proof (invalid signature, expired,
\* replay), the response of the purchase route carries the collaborator's
\* error unchanged - its status and its error content - and the route calls
\* the collaborator no second time for that request.
C19_RejectionVerbatim ==
    \A i \in 1..Len(reqs) :
        (Judged(i) /\ Rejecting(reqs[i].verdict)) =>
            /\ Len(reqs[i].calls) = 1
            /\ IF reqs[i].verdict.threw
               THEN reqs[i].body.error = reqs[i].verdict.msg
               ELSE /\ reqs[i].status = reqs[i].verdict.status
                    /\ reqs[i].body = reqs[i].verdict.body

\* C20: the purchase route hands the x-payment header it received to the
\* settlement collaborator unmodified (an absent header as absent), and
\* calls the collaborator at most once per request: exactly once for a
\* cached product, never for an unknown one.
C20_HeaderPassedOnce ==
    \A i \in 1..Len(reqs) :
        /\ Len(reqs[i].calls) <= 1
        /\ \A k \in 1..Len(reqs[i].calls) : reqs[i].calls[k] = reqs[i].header
        /\ (reqs[i].stage \in {"settling", "lookup"}) => Len(reqs[i].calls) = 1
        /\ Answered(reqs[i]) =>
              (reqs[i].calls = <<>>) = (reqs[i].status = 404 /\ reqs[i].verdict = Thrown(None))

C20_Witness ==
    \E i \in 1..Len(reqs) :
        /\ Answered(reqs[i]) /\ reqs[i].header.kind = "proof"
        /\ reqs[i].calls = <<reqs[i].header>>
        /\ ~reqs[i].verdict.threw /\ reqs[i].verdict.status = 200

\* C29: a purchase request for a product id that is not in the product
\* cache is answered 404 'Product not found' at once and the settlement
\* collaborator is never called for it, with or without an x-payment
\* header; the product cache is left unchanged, and the answer stays.
C29_UnknownProductIs404 ==
    [][ /\ \A i \in 1..Len(reqs') :
              (i > Len(reqs) /\ reqs'[i].pid \notin productCache) =>
                  /\ productCache' = productCache
                  /\ Answered(reqs'[i])
                  /\ reqs'[i].status = 404
                  /\ reqs'[i].body = ErrorBody(reqs'[i].pid, "Product not found")
                  /\ reqs'[i].calls = <<>>
        /\ \A i \in 1..Len(reqs) :
              (i <= Len(reqs') /\ Answered(reqs[i])) => reqs'[i] = reqs[i]
      ]_vars

C29_Witness ==
    \E i, j \in 1..Len(reqs) :
        /\ reqs[i].header.kind = "proof" /\ reqs[j].header.kind = "absent"
        /\ reqs[i].pid \notin productCache /\ reqs[j].pid \notin productCache
        /\ reqs[i].status = 404 /\ reqs[j].status = 404
        /\ reqs[i].calls = <<>> /\ reqs[j].calls = <<>>

\* --------------------------------------------- properties of the client
ExecEntries == {"tool", "payment", "direct"}
EventsOf(r, type) == {k \in 1..Len(r.events) : r.events[k].type = type}
FirstStatus(r) == IF r.received = <<>> THEN 0 ELSE r.received[1].status

\* C2: one call of ApiClient.executePurchase sends at most two requests to
\* the purchase URL, the initial one and one retry, whatever the statuses
\* of the responses, 402 on both included.
C2_AtMostTwoRequests ==
    run.entry \in ExecEntries =>
        /\ Cardinality(EventsOf(run, "fetch")) <= 2
        /\ Len(run.received) <= 2
        /\ Cardinality({i \in 1..Len(reqs) : reqs[i].from = "apiClient"}) <= 1

C2_Witness ==
    /\ run.entry \in ExecEntries /\ run.pc = "done"
    /\ Len(run.received) = 2
    /\ run.received[1].status = 402 /\ run.received[2].status = 402

\* C3 (as stated): a purchase invoked with the confirmation flag false or
\* absent returns a confirmation-required failure at once, without calling
\* executePurchase.
C3_UnconfirmedIsConfirmationRequired ==
    (run.entry \in {"tool", "payment"} /\ run.confirmed # "true") =>
        /\ run.pc = "done"
        /\ run.out \in {"ConfirmationRequired", "MissingParametersOrConfirmation"}
        /\ run.events = <<>>

\* C3 (amended): a purchase invoked with the confirmation flag false or
\* absent returns a failure at once - ConfirmationRequired from
\* processX402Payment; from the tool its missing-parameters-or-confirmation
\* error, or the no-product-context error when no product id was given and
\* no search results are stored - without calling executePurchase and
\* without any request to the resource server.
C3_UnconfirmedNeverPurchases ==
    (run.entry \in {"tool", "payment"} /\ run.confirmed # "true") =>
        /\ run.pc = "done"
        /\ run.events = <<>> /\ run.received = <<>> /\ reqs = <<>>
        /\ run.result = NoResult
        /\ run.entry = "payment" => run.out = "ConfirmationRequired"
        /\ run.entry = "tool" =>
              run.out \in {"MissingParametersOrConfirmation", "NoProductContext"}
        /\ run.out = "NoProductContext" => run.pid = None

C3_Witness ==
    /\ run.entry = "payment" /\ run.confirmed = "false"
    /\ run.pid # None /\ agentInstance # None
    /\ run.out = "ConfirmationRequired"

\* C4: every request sent to the purchase endpoint by the agent's code comes
\* from a path that checked an explicit confirmation flag equal to true.
C4_EveryRequestConfirmed ==
    /\ \A i \in 1..Len(reqs) :
          reqs[i].from \in {"apiClient", "agentManager"} => reqs[i].gated
    /\ EventsOf(run, "fetch") # {} => run.gate /\ run.confirmed = "true"

\* C8: a first response 402 whose body has a missing or empty accepts list
\* makes executePurchase fail fast: the preparer is not invoked and no
\* retry is sent.
C8_EmptyAcceptsFailsFast ==
    ( /\ run.entry \in ExecEntries
      /\ FirstStatus(run) = 402
      /\ \/ run.received[1].body.accepts.missing
         \/ run.received[1].body.accepts.list = <<>> )
    => /\ EventsOf(run, "prepare") = {} /\ EventsOf(run, "sign") = {}
       /\ Cardinality(EventsOf(run, "fetch")) = 1
       /\ run.pc = "done" /\ run.result.kind = "failure"

\* C9: when the first response is 2xx, prepareX402Payment is never invoked
\* and no second request is sent.
C9_FirstOkNoPrepare ==
    (run.entry \in ExecEntries /\ Ok(FirstStatus(run))) =>
        /\ run.events = <<Fetch(run.pid, NoHeader)>>
        /\ Len(run.received) = 1
        /\ run.pc = "done"
        /\ run.received[1].body.kind # "text" =>
              run.result = Data(run.received[1].status, run.received[1].body)
        /\ \A i \in 1..Len(reqs) : reqs[i].from # "apiClient"

C9_Witness ==
    run.entry \in ExecEntries /\ run.pc = "done" /\ FirstStatus(run) = 200

\* C10: happy path: first response 402 with a non-empty accepts list, the
\* preparer succeeds, the retry is answered 200: executePurchase did, in
\* this order, a request without x-payment, one prepare call with accepts[0]
\* of that body (signed by the collaborator), one request to the same URL
\* carrying the prepared header, and it returns the 200 body.
C10_HappyPathOrder ==
    ( /\ run.entry \in ExecEntries /\ run.pc = "done"
      /\ Len(run.received) = 2
      /\ run.received[1].status = 402
      /\ ~run.received[1].body.accepts.missing
      /\ run.received[1].body.accepts.list # <<>>
      /\ run.received[2].status = 200
      /\ run.received[2].body.kind # "text" )
    => LET first == run.received[1].body.accepts.list[1] IN
       /\ Len(run.events) = 4
       /\ run.events[1] = Fetch(run.pid, NoHeader)
       /\ run.events[2] = Ev("prepare", run.pid, NoHeader, first)
       /\ run.events[3].type = "sign" /\ run.events[3].req = first
       /\ run.events[3].header.kind = "proof"
       /\ run.events[4] = Fetch(run.pid, run.events[3].header)
       /\ run.result = Data(200, run.received[2].body)

C10_Witness ==
    /\ run.entry \in ExecEntries /\ run.pc = "done"
    /\ Len(run.received) = 2
    /\ run.received[1].status = 402
    /\ run.received[1].body.accepts.list = <<"r2", "r1">>
    /\ run.received[2].status = 200
    /\ baseUrl = "merchant"
    /\ ResultSuccess(run.result) /\ run.result.body.ref = TxOf(1)

\* the requests of executePurchase the resource server has not answered or
\* whose answer has not been read
InFlight == {i \in 1..Len(reqs) : reqs[i].from = "apiClient"}

\* the responses by which the merchant reports that the settlement verdict
\* was insufficient funds: the relayed 402, or the 500 of the catch
ShortfallReported(resp) ==
    \/ resp.status = 402 /\ resp.body.error = "insufficient funds"
    \/ resp.status = 500 /\ resp.body.error = "Insufficient funds for payment"

\* C11: when the settlement verdict for the retried request is insufficient
\* funds, the result of the client has fundingRequired set and the payment
\* tool reports the FundingRequired outcome, not a generic failure.
C11_InsufficientIsFundingRequired ==
    ( /\ run.entry \in ExecEntries /\ run.pc = "done"
      /\ baseUrl = "merchant"
      /\ Len(run.received) = 2
      /\ ShortfallReported(run.received[2]) )
    => /\ run.result.fundingRequired
       /\ run.entry \in {"tool", "payment"} => run.out = "FundingRequired"

\* C14: if the proof preparer fails after a 402, executePurchase ends in a
\* failure that carries the preparer's error (labelled as a preparation
\* failure, with the message of the error), and no retry request is sent:
\* the only request of the invocation is the first one.
C14_PrepareFailureNoRetry ==
    \A k \in EventsOf(run, "prepareThrew") :
        /\ run.entry \in ExecEntries /\ run.pc = "done"
        /\ k = Len(run.events)
        /\ run.result.kind = "failure" /\ ~ResultSuccess(run.result)
        /\ run.result.error = "prepare"
        /\ run.result.cause = run.events[k].req
        /\ EventsOf(run, "fetch") = {1}
        /\ Len(run.received) = 1 /\ run.received[1].status = 402
        /\ InFlight = {}

C14_Witness ==
    /\ run.pc = "done"
    /\ \E k \in EventsOf(run, "prepareThrew") :
          run.events[k].req = "prepare endpoint failed"
    /\ run.received[1].body.accepts.list # <<>>
    /\ run.result.cause = "prepare endpoint failed"

\* C15: a network-level exception at the initial fetch or at the retry
\* fetch ends the attempt as a failure reported as a transport error (the
\* label of the outer catch, not the one of a proof-preparation failure),
\* and no further request is sent.
C15_TransportErrorDistinct ==
    \A k \in EventsOf(run, "fetchThrew") :
        /\ run.pc = "done"
        /\ k = Len(run.events)
        /\ run.result.kind = "failure"
        /\ run.result.error = "execute"
        /\ InFlight = {}

\* C16: if the retried request, the one carrying x-payment, is answered 402
\* or any other non-2xx status, executePurchase returns success false with
\* an error holding that status and that body; the preparer was called once
\* and no further request is sent.
C16_RetryRejectedTerminal ==
    ( /\ run.entry \in ExecEntries
      /\ Len(run.received) = 2
      /\ ~Ok(run.received[2].status) )
    => /\ run.pc = "done"
       /\ ~ResultSuccess(run.result)
       /\ run.result = Failure(run.pid, "http", None, run.received[2].status,
                               run.received[2].body)
       /\ Cardinality(EventsOf(run, "prepare")) = 1
       /\ Cardinality(EventsOf(run, "sign")) = 1
       /\ Cardinality(EventsOf(run, "fetch")) = 2
       /\ run.events[Len(run.events)].header.kind = "proof"
       /\ InFlight = {}

C16_Witness ==
    /\ run.entry \in ExecEntries /\ run.pc = "done"
    /\ baseUrl = "merchant"
    /\ Len(run.received) = 2
    /\ run.received[2].status = 400
    /\ run.result.status = 400 /\ run.result.body.kind = "reject"

\* C17: a confirmed purchase whose product reference is not the id of one
\* of the agent's stored search results fails without any request to the
\* resource server.
C17_UnknownResourceNoRequest ==
    ( /\ run.entry \in {"tool", "payment"}
      /\ run.confirmed = "true"
      /\ ~run.known )
    => /\ run.pc = "done"
       /\ run.events = <<>> /\ InFlight = {}
       /\ run.out \notin {"PaymentSuccessful", "PaymentFailed", "FundingRequired"}

\* C12: a purchase initiated through the session of agent A is executed
\* with the ApiClient, the wallet (as payer) and the search context of a
\* ShoppingAgent of agent A, for every interleaving of session creations
\* and chat requests of several agents.
C12_PurchaseUsesOwnSession ==
    \A j \in 1..Len(purchaseLog) :
        LET e == purchaseLog[j] IN
        /\ e.by # None
        /\ shoppingAgents[e.via].name = chats[e.chat].name
        /\ shoppingAgents[e.by].name = chats[e.chat].name

\* C23: a status update produced while a chat request for agent A is
\* processed is broadcast under A's name only, after any number of chat
\* requests for any agents.
C23_StatusUnderOwnName ==
    \A b \in statusLog : b.under = chats[b.chat].name

\* C24: the chat requests for one agent name all work with the same
\* ShoppingAgent instance, those arriving before the first session finished
\* initializing included.
C24_OneSessionPerName ==
    \A j, k \in 1..Len(chats) :
        ( /\ chats[j].name = chats[k].name
          /\ chats[j].pc # "health" /\ chats[j].out \in {None, "responded"}
          /\ chats[k].pc # "health" /\ chats[k].out \in {None, "responded"} )
        => chats[j].agent = chats[k].agent

\* ------------------------------------------ properties of status streaming
\* C25: once a WebSocket connection is closed, no subscription it created
\* is left in the StatusStreamer and the connection is in no set of
\* agentConnections, whatever subscribe messages it sent.
C25_CloseRemovesSubscriptions ==
    \A w \in Sockets :
        sockets[w].state = "closed" =>
            /\ \A n \in 1..Len(handles) :
                  handles[n].ws = w =>
                      ~Has(Members(subscribers, handles[n].agent), handles[n].cb)
            /\ \A k \in DOMAIN agentConnections : ~Has(agentConnections[k], w)

C26_SubscribersSurviveReconnect ==
    [][ ( /\ notified'.n # notified.n
          /\ IsOpen(ws) /\ feSockets[ws].auto
          /\ notified'.agent \notin timers.retry )
        => \A j \in 1..Len(Members(feSubscribers, notified'.agent)) :
              Members(feSubscribers, notified'.agent)[j] \in notified'.callbacks
      ]_vars

\* C28: after disconnect() and until connect() is called again, the
\* service has no socket, starts no reconnect attempt and opens no socket.
C28_StaysDisconnected ==
    [][ (disconnected /\ disconnected')
        => /\ ws' = 0
           /\ Len(feSockets') = Len(feSockets)
           /\ timers'.reconnect <= timers.reconnect
      ]_vars

\* ------------------------------------- properties of the x402/fetch client
\* C22: a purchase makes at most one network call, none without a wallet
\* address or without the secret key, and the status of the response fixes
\* the value returned: 200 the (JSON) response body, 402 a failure with
\* fundingRequired, any other status a failure `HTTP status: text` without
\* fundingRequired; fundingRequired is set for status 402 only.
C22_FusedOutcomeByStatus ==
    fused.pc = "done" =>
        /\ fused.calls <= 1
        /\ ((agentWallet = None /\ globalWallet = None) \/ ~secretKey) => fused.calls = 0
        /\ (fused.status = 200 /\ fused.json) =>
              fused.result = Data(200, fused.result.body)
        /\ fused.status = 402 =>
              fused.result.kind = "failure" /\ fused.result.fundingRequired
        /\ fused.status \notin {0, 200, 402} =>
              /\ fused.result.kind = "failure" /\ fused.result.error = "http"
              /\ ~fused.result.fundingRequired
        /\ fused.result.fundingRequired => fused.status = 402

\* ------------------------------------------ properties of the proof preparer
\* a decimal numeral without sign: a non-negative integer
NonNegativeInteger(a) ==
    Len(a) > 0 /\ \A i \in 1..Len(a) :
        a[i] \in {"0", "1", "2", "3", "4", "5", "6", "7", "8", "9"}
\* 0x followed by hexadecimal digits
AddressShaped(p) == p \in {"0x00a1"}

\* C21: a call of the preparer with a maxAmountRequired that is no
\* non-negative integer, or for a payer that is no address, ends with the
\* requirements rejected: no proof is returned and the failure is not that
\* of a collaborator out of reach.
C21_InvalidRequirementsRejected ==
    (prep.pc = "done" /\ prep.payer # None /\ secretKey
        /\ (~NonNegativeInteger(prep.amount) \/ ~AddressShaped(prep.payer)))
    => prep.out = "prepare endpoint failed"

\* ----------------------------------------- properties of failure reporting
\* C30: executePurchase and processX402Payment end with a value returned,
\* never with an exception: the value of a purchase that failed - the
\* first fetch, a 402 or ok body that is no JSON, the preparer, a missing
\* wallet or secret key, the retry - has success false, the product id and
\* an error, and processX402Payment reports it as a failure.
C30_FailuresAreReturned ==
    (run.pc = "done" /\ run.entry # "manager") =>
        /\ run.result.kind \in {"none", "data", "failure"}
        /\ run.result.kind = "none" => (run.gate = FALSE /\ run.events = <<>>)
        /\ run.result.kind = "failure" =>
              /\ run.result.error # None
              /\ run.result.productId = run.pid
        /\ run.out # None
        /\ run.entry # "direct" =>
              (run.out = "PaymentSuccessful") = ResultSuccess(run.result)

\* purchases that failed at the first fetch, at a body that is no JSON, in
\* the preparer for want of a wallet or of the secret key, or at the retry
C30_Witness ==
    /\ run.pc = "done"
    /\ run.result.kind = "failure"
    /\ run.entry # "direct"
    /\ run.result.error = "execute"
    /\ run.result.cause = "invalid json"
    /\ run.result.status = 402

====
